---- MODULE Spec2Model ----
(***************************************************************************)
(* A state-machine model of the bulletc bridge of name-needed: the         *)
(* dynamics world wrapper (dynworld), the slab collider hot swap, entity   *)
(* colliders with their jump sensors, and the debug-draw forwarder.        *)
(*                                                                         *)
(* The rigid-body engine itself is external.  It is modelled by what the   *)
(* bridge relies on: a list of registered collision objects with a         *)
(* group/mask filter, a broadphase that keeps each ghost object's list of  *)
(* overlapping objects, and a precise contact test between two objects.    *)
(* Geometry is abstracted to a height on a short vertical axis: two        *)
(* objects overlap in the broadphase when their heights differ by at most  *)
(* one, and touch when their heights are equal.                            *)
(***************************************************************************)
EXTENDS Integers, FiniteSets, Sequences, TLC

\* ------------------------------------------------------------------ bounds
MaxSlabs     == 2   \* slab colliders allocated over a run
MaxEntities  == 2   \* entity colliders allocated over a run
MaxRenderers == 2   \* DebugRenderer objects allocated over a run
MaxPos       == 2   \* heights are 0..MaxPos
MaxSinkLog   == 2   \* sink invocations recorded over a run
MaxForce     == 4   \* cap on a component of the accumulated force
MaxSensed    == 1   \* entities that SpecSensor follows
MaxElapsed   == 3   \* elapsed_seconds is 0..MaxElapsed, in units of 1/60 s
MaxRate      == 2   \* fixed_rate is 1..MaxRate, in the same unit
MaxExtent    == 2   \* half-extents are 1..MaxExtent times ExtentStep

\* ------------------------------------------------------- program constants
NULL == 0

\* the handle dynworld_create returned
TheWorld == 1

\* collision groups (common.hpp)
COL_NONE               == 0
COL_WORLD              == 1024
COL_ENTITIES           == 2048
COL_ENTITY_JUMP_SENSOR == 4096

RECURSIVE BitAnd(_, _)
BitAnd(a, b) ==
    IF a = 0 \/ b = 0 THEN 0
    ELSE (a % 2) * (b % 2) + 2 * BitAnd(a \div 2, b \div 2)

RECURSIVE BitOr(_, _)
BitOr(a, b) ==
    IF a = 0 THEN b
    ELSE IF b = 0 THEN a
    ELSE (IF (a % 2) + (b % 2) > 0 THEN 1 ELSE 0) + 2 * BitOr(a \div 2, b \div 2)

\* what each group collides with (common.hpp)
COLMASK_WORLD              == BitOr(COL_ENTITIES, COL_ENTITY_JUMP_SENSOR)
COLMASK_ENTITY_selfcollide == BitOr(COL_WORLD, COL_ENTITIES)
COLMASK_ENTITY             == COL_WORLD
COLMASK_ENTITY_JUMP_SENSOR == COL_WORLD

\* entity_jump_action (game bulletc.hpp)
NOPE               == "NOPE"
UNCONDITIONAL      == "UNCONDITIONAL"
IF_SENSOR_OCCLUDED == "IF_SENSOR_OCCLUDED"
JumpActions        == {NOPE, UNCONDITIONAL, IF_SENSOR_OCCLUDED}

\* g_config.jump_force: the upward impulse magnitude, read at each call
JumpForce == 2

\* ------------------------------------------------------------ input domains
Positions == 0..MaxPos
Poses     == {<<p, p % 2>> : p \in Positions}   \* <<position, heading>> written
Vels      == {<<0, 0>>, <<1, 1>>}     \* <<horizontal, vertical>>
Sinks     == {1, 2}                   \* fn_draw_line values
Blobs     == {1, 2}                   \* frame_blob values
Elapsed   == 0..MaxElapsed            \* elapsed_seconds values
FixedRates == 1..MaxRate              \* fixed_rate values

SlabIds     == 1..MaxSlabs
EntityIds   == 1..MaxEntities
RendererIds == 1..MaxRenderers

VARIABLES
    registered,     \* the dynamics world's collision objects: [obj, group, mask]
    slabs,          \* slab_collider objects, by handle
    call,           \* the slab_collider_update call in flight, if any
    ents,           \* entity_collider objects, by handle
    contacts,       \* the object pairs the last call produced contacts for
    out,            \* the output buffers handed to the last call: pos, rot,
                    \* jump_sensor_occluded; -1 and "unwritten" as handed in
    renderers,      \* DebugRenderer objects, by address
    debugRenderer,  \* dynworld::debugRenderer
    dw_drawer,      \* the dynamics world's debug drawer
    sink_log,       \* invocations of the external sink: <<fn, blob>>
    ub,             \* kinds of undefined behaviour executed so far
    crashed,        \* the process died
    last,           \* the last bridge call: its name, handle argument, result
    dw,             \* the dynworld object: its subsystems, the engine's clock
    leaks           \* allocations that no object owns and no code can free

vars == <<registered, slabs, call, ents, contacts, out, renderers, debugRenderer,
          dw_drawer, sink_log, ub, crashed, last, dw, leaks>>

slabVars   == <<slabs, call>>
entVars    == <<ents>>
debugVars  == <<renderers, debugRenderer, dw_drawer, sink_log>>
heapVars   == <<dw, leaks>>

\* ----------------------------------------------------------------- objects
SlabObj(s)   == <<"slab", s>>
BodyObj(e)   == <<"body", e>>
SensorObj(e) == <<"sensor", e>>

Objs(reg)         == {r.obj : r \in reg}
GroupObjs(reg, g) == {r.obj : r \in {x \in reg : x.group = g}}

\* btCollisionWorld::addCollisionObject / addRigidBody with a group and a mask
addRigidBody(reg, o, group, mask) ==
    reg \cup {[obj |-> o, group |-> group, mask |-> mask]}

removeRigidBody_keep(reg, o) == reg

\* btDiscreteDynamicsWorld::removeRigidBody
removeRigidBody(reg, o) == {r \in reg : r.obj # o}

\* the engine's broadphase filter: each one's group meets the other's mask
NeedsCollision(a, b) ==
    /\ BitAnd(a.group, b.mask) # 0
    /\ BitAnd(b.group, a.mask) # 0

Abs(x) == IF x < 0 THEN -x ELSE x

NoCall == [pc |-> "idle", world |-> TheWorld, prev |-> NULL, new |-> NULL, pos |-> 0]

NoLast == [op |-> "none", world |-> TheWorld, h |-> NULL, ret |-> 0, action |-> NOPE,
           seen |-> "none", applied |-> <<0, 0>>, vel |-> <<0, 0>>,
           overlapping |-> 0, tests |-> 0, hits |-> 0, lines |-> 0,
           due |-> 0, substeps |-> 0, again |-> FALSE, blob |-> NULL,
           failed |-> 0]

NoSlab == [state |-> "unalloc", pos |-> 0, made_from |-> NULL, built |-> <<>>,
           freed |-> <<>>]

\* the numbers of an entity collider: half_dims, the sensor's box, the body's
\* and the sensor's world transforms (origin, quarter turns about UP)
NoGeom == [half_dims |-> <<0, 0, 0>>, sensor_dims |-> <<0, 0, 0>>, shape_fwd |-> 0,
           origin |-> <<0, 0, 0>>, turn |-> 0,
           sorigin |-> <<0, 0, 0>>, sturn |-> 0]

NoEnt  == [state |-> "unalloc", sensor |-> FALSE, pos |-> 0, rot |-> 0,
           spos |-> 0, srot |-> 0, bpos |-> 0, occluded |-> 0, force |-> <<0, 0>>,
           overlaps |-> {}, reported |-> "none", freed |-> <<>>,
           geom |-> NoGeom]

NoRenderer == [state |-> "unalloc", frame_blob |-> NULL, draw_line |-> NULL]

NoOut == [pos |-> -1, rot |-> -1, occluded |-> "unwritten"]

\* struct dynworld: the subsystems it owns, in the order the constructor
\* allocates them (debugRenderer is the variable of that name)
Subsystems == <<"collisionConfiguration", "dispatcher", "overlappingPairCache",
                "solver", "dynamicsWorld", "ghostCallback">>

SubsystemNames == {Subsystems[i] : i \in 1..Len(Subsystems)}

NoWorld == [state |-> "none", sub |-> [n \in SubsystemNames |-> "unalloc"],
            localTime |-> 0, freed |-> <<>>]

\* the object a successful dynworld_create leaves behind
BuiltWorld == [NoWorld EXCEPT !.state = "live",
                              !.sub = [n \in SubsystemNames |-> "live"]]

\* the state after dynworld_create: an empty world, no debug renderer
Init ==
    /\ registered = {}
    /\ slabs = [s \in SlabIds |-> NoSlab]
    /\ call = NoCall
    /\ ents = [e \in EntityIds |-> NoEnt]
    /\ contacts = {}
    /\ out = NoOut
    /\ renderers = [r \in RendererIds |-> NoRenderer]
    /\ debugRenderer = NULL
    /\ dw_drawer = NULL
    /\ sink_log = <<>>
    /\ ub = {}
    /\ crashed = FALSE
    /\ last = NoLast
    /\ dw = BuiltWorld
    /\ leaks = {}

\* a call may start: the process is alive, no call is running, the world exists
Idle == ~crashed /\ call.pc = "idle" /\ dw.state = "live"

\* ------------------------------------------------------ the engine's queries
\* where an object is now (its world transform)
ObjPos(es, sl, o) ==
    IF o[1] = "slab" THEN sl[o[2]].pos
    ELSE IF o[1] = "body" THEN es[o[2]].pos
    ELSE es[o[2]].spos

\* where the broadphase believes an object is (its bounding box, which the
\* engine refreshes when the object is added and in every simulation step)
BoxPos(es, sl, o) ==
    IF o[1] = "slab" THEN sl[o[2]].pos
    ELSE IF o[1] = "body" THEN es[o[2]].pos
    ELSE es[o[2]].bpos

RegOf(reg, o) == CHOOSE r \in reg : r.obj = o

\* broadphase: the filter passes and the bounding boxes meet
BroadphaseOverlap(reg, es, sl, a, b) ==
    /\ a # b
    /\ NeedsCollision(RegOf(reg, a), RegOf(reg, b))
    /\ Abs(BoxPos(es, sl, a) - BoxPos(es, sl, b)) <= 1

\* btGhostObject's overlapping objects, as the pair cache's callback keeps them
GhostOverlaps(reg, es, sl, e) ==
    IF SensorObj(e) \in Objs(reg)
    THEN {o \in Objs(reg) : BroadphaseOverlap(reg, es, sl, SensorObj(e), o)}
    ELSE {}

\* contactPairTest: the precise test, on the current world transforms
Touching(es, sl, a, b) == ObjPos(es, sl, a) = ObjPos(es, sl, b)

\* the pair cache after object o was added: o is paired with what it overlaps
OverlapsAdded(reg, es, sl, o) ==
    [e \in EntityIds |->
        IF o \notin Objs(reg) THEN es[e]
        ELSE IF o = SensorObj(e)
        THEN [es[e] EXCEPT !.overlaps = GhostOverlaps(reg, es, sl, e)]
        ELSE IF SensorObj(e) \in Objs(reg) /\ BroadphaseOverlap(reg, es, sl, SensorObj(e), o)
        THEN [es[e] EXCEPT !.overlaps = @ \cup {o}]
        ELSE es[e]]

\* the pair cache after object o was removed: its pairs are gone
OverlapsRemoved(es, o) ==
    [e \in EntityIds |-> [es[e] EXCEPT !.overlaps = @ \ {o}]]

\* world->dynamicsWorld (or world->debugRenderer) read through a null world:
\* undefined.  The process dies, or the call returns having done nothing more.
NullWorldDeref(op, h) ==
    /\ ub' = ub \cup {"null_world"}
    /\ crashed' \in BOOLEAN
    /\ last' = [NoLast EXCEPT !.op = op, !.world = NULL, !.h = h]
    /\ out' = NoOut
    /\ contacts' = {}

\* --------------------------------------------------- slab_collider_update
LiveSlabs == {s \in SlabIds : slabs[s].state = "live"}
FreshSlab == CHOOSE s \in SlabIds : slabs[s].state = "unalloc" /\
                 \A t \in SlabIds : slabs[t].state = "unalloc" => s <= t

\* entry: the vertex and index buffers are copied
SlabCopyBuffers(world, prev, slab_pos) ==
    /\ Idle
    /\ prev \in {NULL} \cup LiveSlabs
    /\ \E s \in SlabIds : slabs[s].state = "unalloc"
    /\ call' = [pc |-> "copied", world |-> world, prev |-> prev, new |-> NULL,
                pos |-> slab_pos]
    /\ last' = [NoLast EXCEPT !.op = "slab_collider_update:enter", !.world = world,
                              !.h = prev]
    /\ out' = NoOut
    /\ contacts' = {}
    /\ UNCHANGED <<registered, slabs, entVars, debugVars, ub, crashed, heapVars>>

\* the two buffers the call allocates first, in the order it allocates them
BufferAllocs == <<"vertices_copy", "indices_copy">>

\* what became of the buffers allocated before the one whose new[] failed:
\* nothing frees them on the way out
BuffersLeaked(failed) == {BufferAllocs[i] : i \in 1..(failed - 1)}

\* entry, when memory runs out: new[] for buffer number `failed` throws
\* std::bad_alloc, which nothing in the call catches.  The exception leaves
\* the bridge; a caller that cannot unwind it dies.
SlabCopyThrows(world, prev, failed) ==
    /\ Idle
    /\ prev \in {NULL} \cup LiveSlabs
    /\ failed \in 1..Len(BufferAllocs)
    /\ leaks' = leaks \cup BuffersLeaked(failed)
    /\ crashed' \in BOOLEAN
    /\ last' = [NoLast EXCEPT !.op = "slab_collider_update:threw", !.world = world,
                              !.h = prev, !.failed = failed]
    /\ out' = NoOut
    /\ contacts' = {}
    /\ UNCHANGED <<registered, slabVars, entVars, debugVars, ub, dw>>

\* if (prev != nullptr) removeRigidBody(prev->slab_body)
SlabRemovePrev ==
    /\ ~crashed /\ call.pc = "copied"
    /\ IF call.prev # NULL /\ call.world = NULL
       THEN /\ NullWorldDeref("slab_collider_update", call.prev)
            /\ call' = NoCall
            /\ leaks' = leaks \cup {"vertices_copy", "indices_copy"}
            /\ UNCHANGED <<registered, slabs, entVars, debugVars, dw>>
       ELSE /\ call' = [call EXCEPT !.pc = "removed"]
            /\ IF call.prev # NULL
               THEN /\ registered' = removeRigidBody(registered, SlabObj(call.prev))
                    /\ ents' = OverlapsRemoved(ents, SlabObj(call.prev))
               ELSE UNCHANGED <<registered, ents>>
            /\ UNCHANGED <<slabs, contacts, out, debugVars, ub, crashed, last, heapVars>>

\* ~slab_collider: the delete statements, in program order
SlabDestroyOrder == <<"indices", "vertices", "shape", "mesh", "slab_body">>

deleteSlab_leak(sl, prev) == sl

\* delete prev: nothing for a null pointer, ~slab_collider otherwise
deleteSlab(sl, prev) ==
    IF prev # NULL
    THEN [sl EXCEPT ![prev].state = "freed", ![prev].pos = 0,
                    ![prev].freed = SlabDestroyOrder]
    ELSE sl

\* delete prev
SlabDeletePrev ==
    /\ ~crashed /\ call.pc = "removed"
    /\ call' = [call EXCEPT !.pc = "deleted"]
    /\ slabs' = deleteSlab(slabs, call.prev)
    /\ UNCHANGED <<registered, entVars, contacts, out, debugVars, ub, crashed, last, heapVars>>

\* what a slab collider owns, in the order slab_collider_update allocates it:
\* the two copies, the mesh interface over them, the shape over the mesh, the
\* body over the shape
SlabBuildOrder == <<"vertices", "indices", "mesh", "shape", "slab_body">>

\* new slab_collider(), the mesh, the shape and the static body
SlabBuild ==
    /\ ~crashed /\ call.pc = "deleted"
    /\ call' = [call EXCEPT !.pc = "built", !.new = FreshSlab]
    /\ slabs' = [slabs EXCEPT ![FreshSlab] =
                    [state |-> "live", pos |-> call.pos, made_from |-> call.prev,
                     built |-> SlabBuildOrder, freed |-> <<>>]]
    /\ UNCHANGED <<registered, entVars, contacts, out, debugVars, ub, crashed, last, heapVars>>

\* addRigidBody(collider->slab_body, COL_WORLD, COLMASK_WORLD); return collider
SlabRegister ==
    /\ ~crashed /\ call.pc = "built"
    /\ call' = NoCall
    /\ IF call.world = NULL
       THEN /\ NullWorldDeref("slab_collider_update", call.prev)
            /\ UNCHANGED <<registered, slabs, entVars, debugVars, heapVars>>
       ELSE /\ registered' = addRigidBody(registered, SlabObj(call.new), COL_WORLD,
                                          COLMASK_WORLD)
            /\ ents' = OverlapsAdded(registered', ents, slabs, SlabObj(call.new))
            /\ last' = [NoLast EXCEPT !.op = "slab_collider_update", !.h = call.prev,
                                      !.ret = call.new]
            /\ UNCHANGED <<slabs, contacts, out, debugVars, ub, crashed, heapVars>>

slab_collider_update(world) ==
    \/ \E prev \in {NULL} \cup SlabIds, slab_pos \in Positions :
           SlabCopyBuffers(world, prev, slab_pos)
    \/ call.world = world /\ SlabRemovePrev
    \/ call.world = world /\ SlabDeletePrev
    \/ call.world = world /\ SlabBuild
    \/ call.world = world /\ SlabRegister

\* ------------------------------------------------------------ jump sensor
\* update_jump_sensor_transform: the body's transform composed with the fixed
\* forward/down offset; the sensor stays in the body's cell, facing its way
SensorPlacement(pos, rot) == [spos |-> pos, srot |-> rot]

\* jump_sensor_callback::addSingleResult: *occluded |= 1u
addSingleResult(occluded) == BitOr(occluded, 1)

\* the objects poll() runs contactPairTest against: the ghost's overlap list
PollTests(en) == en.overlaps

\* the tests among them that report a contact point to the callback
PollHits(es, sl, e) ==
    {o \in PollTests(es[e]) : Touching(es, sl, SensorObj(e), o)}

\* the occlusion word once poll()'s loop has run
PollAccumulate(es, sl, e) ==
    IF PollHits(es, sl, e) # {} THEN addSingleResult(es[e].occluded)
    ELSE es[e].occluded

PollReturn_inverted(occluded) == occluded = 0

\* bool ret = occluded == 1
PollReturn(occluded) == occluded = 1

PollReset_sticky(occluded) == occluded

\* reset for next time: occluded = 0
PollReset(occluded) == 0

\* --------------------------------------------------------- entity_collider
LiveEnts == {e \in EntityIds : ents[e].state = "live"}
FreshEnt == CHOOSE e \in EntityIds : ents[e].state = "unalloc" /\
                \A f \in EntityIds : ents[f].state = "unalloc" => e <= f

SensorRegistration_always(e, jump_sensor) ==
    {[obj |-> SensorObj(e), group |-> COL_ENTITY_JUMP_SENSOR,
      mask |-> COLMASK_ENTITY_JUMP_SENSOR]}

\* if (jump_sensor) addCollisionObject(&jump_sensor->body, group, mask)
SensorRegistration(e, jump_sensor) ==
    IF jump_sensor
    THEN {[obj |-> SensorObj(e), group |-> COL_ENTITY_JUMP_SENSOR,
           mask |-> COLMASK_ENTITY_JUMP_SENSOR]}
    ELSE {}

entity_collider_create(world, center, jump_sensor) ==
    LET e    == FreshEnt
        pl   == SensorPlacement(center, 0)
        made == [NoEnt EXCEPT !.state = "live", !.sensor = jump_sensor,
                              !.pos = center, !.rot = 0,
                              !.spos = IF jump_sensor THEN pl.spos ELSE 0,
                              !.srot = IF jump_sensor THEN pl.srot ELSE 0,
                              !.bpos = IF jump_sensor THEN pl.spos ELSE 0]
        es1  == [ents EXCEPT ![e] = made]
        reg1 == addRigidBody(registered, BodyObj(e), COL_ENTITIES, COLMASK_ENTITY)
        reg2 == reg1 \cup SensorRegistration(e, jump_sensor)
    IN /\ Idle
       /\ \E f \in EntityIds : ents[f].state = "unalloc"
       /\ IF world = NULL
          THEN \* the collider is built, then world->dynamicsWorld is read
               /\ NullWorldDeref("entity_collider_create", NULL)
               /\ leaks' = leaks \cup {"entity_collider"}
               /\ UNCHANGED <<registered, slabVars, entVars, debugVars, dw>>
          ELSE /\ registered' = reg2
               /\ ents' = OverlapsAdded(reg2, es1, slabs, SensorObj(e))
               /\ last' = [NoLast EXCEPT !.op = "entity_collider_create", !.ret = e]
               /\ out' = NoOut
               /\ contacts' = {}
               /\ UNCHANGED <<slabVars, debugVars, ub, crashed, heapVars>>

EntityDestroyOrder_shapeonly == <<"body_shape">>

\* ~entity_collider: the delete statements, in program order
EntityDestroyOrder == <<"body_shape", "jump_sensor">>

\* delete of a null jump_sensor pointer frees nothing
EntityFreed(en) ==
    SelectSeq(EntityDestroyOrder, LAMBDA part : part # "jump_sensor" \/ en.sensor)

\* delete collider: nothing for a null pointer, ~entity_collider otherwise.
\* The destructor has no world to unregister the body or the sensor from.
delete_entity_collider(collider) ==
    /\ Idle
    /\ collider \in {NULL} \cup LiveEnts
    /\ ents' = IF collider = NULL THEN ents
               ELSE [ents EXCEPT ![collider].state = "freed",
                                 ![collider].freed = EntityFreed(ents[collider])]
    /\ last' = [NoLast EXCEPT !.op = "~entity_collider", !.h = collider]
    /\ out' = NoOut
    /\ contacts' = {}
    /\ UNCHANGED <<registered, slabVars, debugVars, ub, crashed, heapVars>>

Report(b) == IF b THEN "occluded" ELSE "clear"

ReturnCode_zero(collider) == 0

\* int ret = -1; if (collider != nullptr) { ...; ret = 0; } return ret;
ReturnCode(collider) == IF collider # NULL THEN 0 ELSE -1

\* entity_collider_get where poll() has no use for the world, or has a world
entity_collider_get_polling(world, collider) ==
    /\ IF collider # NULL
       THEN LET en    == ents[collider]
                occ   == PollAccumulate(ents, slabs, collider)
                ret   == PollReturn(occ)
            IN /\ out' = [pos |-> en.pos, rot |-> en.rot,
                          occluded |-> IF en.sensor THEN Report(ret)
                                       ELSE NoOut.occluded]
               /\ ents' = IF en.sensor
                          THEN [ents EXCEPT ![collider].occluded = PollReset(occ),
                                            ![collider].reported = Report(ret)]
                          ELSE ents
               /\ contacts' = IF en.sensor
                              THEN {{SensorObj(collider), o} :
                                       o \in PollHits(ents, slabs, collider)}
                              ELSE {}
               /\ last' = [NoLast EXCEPT
                             !.op = "entity_collider_get", !.world = world,
                             !.h = collider,
                             !.ret = ReturnCode(collider),
                             !.overlapping = IF en.sensor THEN Cardinality(en.overlaps)
                                             ELSE 0,
                             !.seen = IF en.sensor THEN Report(ret) ELSE "none",
                             !.tests = IF en.sensor THEN Cardinality(PollTests(en)) ELSE 0,
                             !.hits = IF en.sensor
                                      THEN Cardinality(PollHits(ents, slabs, collider))
                                      ELSE 0]
       ELSE /\ last' = [NoLast EXCEPT !.op = "entity_collider_get", !.world = world,
                                      !.h = NULL, !.ret = ReturnCode(collider)]
            /\ out' = NoOut
            /\ contacts' = {}
            /\ UNCHANGED ents
    /\ UNCHANGED <<registered, slabVars, debugVars, ub, crashed, heapVars>>

entity_collider_get(world, collider) ==
    /\ Idle
    /\ collider \in {NULL} \cup LiveEnts
    /\ IF collider # NULL /\ world = NULL /\ ents[collider].sensor
          /\ PollTests(ents[collider]) # {}
       THEN \* pos and rot are written, then poll() runs its first contact test
            \* through world->dynamicsWorld
            /\ ub' = ub \cup {"null_world"}
            /\ crashed' \in BOOLEAN
            /\ last' = [NoLast EXCEPT !.op = "entity_collider_get", !.world = NULL,
                                      !.h = collider, !.ret = ReturnCode(collider)]
            /\ out' = [NoOut EXCEPT !.pos = ents[collider].pos,
                                    !.rot = ents[collider].rot]
            /\ contacts' = {}
            /\ UNCHANGED <<registered, slabVars, entVars, debugVars, heapVars>>
       ELSE entity_collider_get_polling(world, collider)

entity_collider_get_pos(collider) ==
    /\ Idle
    /\ collider \in {NULL} \cup LiveEnts
    /\ IF collider # NULL
       THEN /\ out' = [NoOut EXCEPT !.pos = ents[collider].pos]
            /\ last' = [NoLast EXCEPT !.op = "entity_collider_get_pos", !.h = collider,
                                      !.ret = ReturnCode(collider)]
       ELSE /\ last' = [NoLast EXCEPT !.op = "entity_collider_get_pos", !.h = NULL,
                                      !.ret = ReturnCode(collider)]
            /\ out' = NoOut
    /\ contacts' = {}
    /\ UNCHANGED <<registered, slabVars, ents, debugVars, ub, crashed, heapVars>>

\* entity_jump_action: NOPE, jumping is out of the question; UNCONDITIONAL,
\* jump right now; IF_SENSOR_OCCLUDED, jump only if the jump sensor is occluded
ShouldJump(jump_action, reported) ==
    \/ jump_action = UNCONDITIONAL
    \/ jump_action = IF_SENSOR_OCCLUDED /\ reported = "occluded"

\* the jump_force argument the jump action stands for
JumpForceFor(jump_action, reported) ==
    IF ShouldJump(jump_action, reported) THEN JumpForce ELSE 0

AppliedForce_nojump(vel, jump_force) == vel

\* new_vel[UP_DIM] += jump_force
AppliedForce(vel, jump_force) == <<vel[1], vel[2] + jump_force>>

\* collider->body.setWorldTransform(transform)
SetWorldTransform(en, pos, rot) == [en EXCEPT !.pos = pos, !.rot = rot]

\* if (has_jump_sensor()) update_jump_sensor_transform(): the sensor is placed
\* from body.getWorldTransform() as it is when this runs
UpdateJumpSensorTransform(en) ==
    IF en.sensor
    THEN [en EXCEPT !.spos = SensorPlacement(en.pos, en.rot).spos,
                    !.srot = SensorPlacement(en.pos, en.rot).srot]
    ELSE en

\* collider->body.applyCentralForce(new_vel): added to the body's total force
ApplyCentralForce(en, f) ==
    [en EXCEPT !.force = <<en.force[1] + f[1], en.force[2] + f[2]>>]

SetBody_placefirst(en, pos, rot, f) ==
    ApplyCentralForce(SetWorldTransform(UpdateJumpSensorTransform(en), pos, rot), f)

\* the body of entity_collider_set, in program order: the transform is
\* written, the sensor re-placed, the force applied
SetBody(en, pos, rot, f) ==
    ApplyCentralForce(UpdateJumpSensorTransform(SetWorldTransform(en, pos, rot)), f)

entity_collider_set(collider, pos, rot, vel, jump_action) ==
    /\ Idle
    /\ collider \in {NULL} \cup LiveEnts
    /\ IF collider # NULL
       THEN LET en  == ents[collider]
                f   == AppliedForce(vel, JumpForceFor(jump_action, en.reported))
                new == SetBody(en, pos, rot, f)
            IN /\ new.force[1] <= MaxForce /\ new.force[2] <= MaxForce
               /\ ents' = [ents EXCEPT ![collider] = new]
               /\ last' = [NoLast EXCEPT
                             !.op = "entity_collider_set", !.h = collider,
                             !.ret = ReturnCode(collider),
                             !.action = jump_action, !.seen = en.reported,
                             !.vel = vel, !.applied = f,
                             !.again = /\ last.op = "entity_collider_set"
                                       /\ last.h = collider
                                       /\ last.action = jump_action]
       ELSE /\ last' = [NoLast EXCEPT !.op = "entity_collider_set", !.h = NULL,
                                      !.ret = ReturnCode(collider),
                                      !.action = jump_action, !.vel = vel]
            /\ UNCHANGED ents
    /\ out' = NoOut
    /\ contacts' = {}
    /\ UNCHANGED <<registered, slabVars, debugVars, ub, crashed, heapVars>>

\* ------------------------------------------------------------ dynworld_step
\* the pairs of registered objects for which the engine produces contacts
ContactPairs(reg, es, sl) ==
    {pr \in {{a, b} : a \in Objs(reg), b \in Objs(reg)} :
        /\ Cardinality(pr) = 2
        /\ \E a \in pr, b \in pr :
              /\ a # b
              /\ NeedsCollision(RegOf(reg, a), RegOf(reg, b))
              /\ Touching(es, sl, a, b)}

StepMaxSubSteps_two == 1 + 1

\* the maxSubSteps that dynworld_step hands to stepSimulation
StepMaxSubSteps == 1

\* stepSimulation's defaults, which dynworld_step_render_only leaves in force:
\* maxSubSteps = 1 and fixedTimeStep = 1/60 s, the unit of time here
DefaultMaxSubSteps == 1
DefaultFixedTimeStep == 1

\* stepSimulation's clock: the simulation steps that are due once timeStep
\* has been added to the local time
StepsDue(localTime, timeStep, fixedTimeStep) ==
    IF localTime + timeStep >= fixedTimeStep
    THEN (localTime + timeStep) \div fixedTimeStep
    ELSE 0

\* the local time kept for the next call: what the due steps do not cover
LocalTimeAfter(localTime, timeStep, fixedTimeStep) ==
    (localTime + timeStep) - StepsDue(localTime, timeStep, fixedTimeStep) * fixedTimeStep

\* the steps that run: the due ones, at most maxSubSteps of them
ClampedSteps(due, maxSubSteps) == IF due > maxSubSteps THEN maxSubSteps ELSE due

\* stepSimulation: in each substep that runs a dynamic body moves, here falls
\* by at most one; bounding boxes and the pair cache are refreshed and contacts
\* are produced; applied forces are cleared when the call ends, whether a
\* substep ran or not
stepSimulation(op, timeStep, maxSubSteps, fixedTimeStep) ==
    LET due     == StepsDue(dw.localTime, timeStep, fixedTimeStep)
        n       == ClampedSteps(due, maxSubSteps)
        substep == n > 0
    IN /\ \E drop \in [EntityIds -> 0..n] :
          /\ \A e \in EntityIds :
                drop[e] <= (IF e \in LiveEnts THEN ents[e].pos ELSE 0)
          /\ LET moved == [e \in EntityIds |->
                             [ents[e] EXCEPT
                                !.pos = @ - drop[e],
                                !.bpos = IF substep THEN ents[e].spos ELSE @,
                                !.force = <<0, 0>>]]
             IN /\ ents' = IF substep
                           THEN [e \in EntityIds |->
                                   [moved[e] EXCEPT !.overlaps =
                                       GhostOverlaps(registered, moved, slabs, e)]]
                           ELSE moved
                /\ contacts' = IF substep
                               THEN ContactPairs(registered, moved, slabs)
                               ELSE {}
       /\ dw' = [dw EXCEPT !.localTime =
                    LocalTimeAfter(dw.localTime, timeStep, fixedTimeStep)]
       /\ last' = [NoLast EXCEPT !.op = op, !.due = due, !.substeps = n]
       /\ out' = NoOut
       /\ UNCHANGED <<registered, slabVars, debugVars, ub, crashed, leaks>>

\* world->dynamicsWorld->stepSimulation(elapsed_seconds, 1, fixed_rate)
dynworld_step(world, elapsed_seconds, fixed_rate) ==
    /\ Idle
    /\ IF world = NULL
       THEN /\ NullWorldDeref("dynworld_step", NULL)
            /\ UNCHANGED <<registered, slabVars, entVars, debugVars, heapVars>>
       ELSE stepSimulation("dynworld_step", elapsed_seconds, StepMaxSubSteps, fixed_rate)

\* world->dynamicsWorld->stepSimulation(elapsed_seconds)
dynworld_step_render_only(world, elapsed_seconds) ==
    /\ Idle
    /\ IF world = NULL
       THEN /\ NullWorldDeref("dynworld_step_render_only", NULL)
            /\ UNCHANGED <<registered, slabVars, entVars, debugVars, heapVars>>
       ELSE stepSimulation("dynworld_step_render_only", elapsed_seconds,
                           DefaultMaxSubSteps, DefaultFixedTimeStep)

\* ------------------------------------------------------------ debug drawing
FreshRenderer == CHOOSE r \in RendererIds : renderers[r].state = "unalloc" /\
                     \A q \in RendererIds : renderers[q].state = "unalloc" => r <= q

\* delete p on the renderer heap: the kind of undefined behaviour, if any
DeleteUB(rs, p) == IF p # NULL /\ rs[p].state = "freed" THEN {"double_free"} ELSE {}

\* delete p: nothing for a null pointer, the object is freed otherwise
DeleteRenderer(rs, p) ==
    IF p # NULL /\ rs[p].state = "live" THEN [rs EXCEPT ![p].state = "freed"] ELSE rs

\* DebugRenderer::setFrameBlob: this->frame_blob = blob
setFrameBlob(rs, p, blob) ==
    IF p # NULL THEN [rs EXCEPT ![p].frame_blob = blob] ELSE rs

\* DebugRenderer::drawLine: draw_line(frame_blob, from, to, color); what the
\* sink is called with
drawLine(rs, p) == <<rs[p].draw_line, rs[p].frame_blob>>

Detach_skipped(rs, p) == rs

\* world->debugRenderer->setFrameBlob(nullptr), once the traversal is over
Detach(rs, p) == setFrameBlob(rs, p, NULL)

\* dynworld_set_debug_drawer and dynworld_debug_draw with a null world: the
\* first statement of each reads world->debugRenderer
debug_null_world(op) ==
    /\ Idle
    /\ NullWorldDeref(op, NULL)
    /\ UNCHANGED <<registered, slabVars, entVars, debugVars, heapVars>>

\* dynworld_set_debug_drawer: delete world->debugRenderer, then, for a sink,
\* a new DebugRenderer stored in the world and handed to the dynamics world.
\* Deleting a pointer that was freed before is undefined: the process dies or
\* the call goes on.
dynworld_set_debug_drawer(world, draw_line) ==
    IF world = NULL THEN debug_null_world("dynworld_set_debug_drawer")
    ELSE LET bad == DeleteUB(renderers, debugRenderer)
             rs1 == DeleteRenderer(renderers, debugRenderer)
         IN /\ Idle
            /\ world # NULL
            /\ draw_line # NULL => \E r \in RendererIds : renderers[r].state = "unalloc"
            /\ ub' = ub \cup bad
            /\ last' = [NoLast EXCEPT !.op = "dynworld_set_debug_drawer", !.h = draw_line]
            /\ \/ /\ bad # {}
                  /\ crashed' = TRUE
                  /\ UNCHANGED <<renderers, debugRenderer, dw_drawer>>
               \/ /\ crashed' = FALSE
                  /\ IF draw_line # NULL
                     THEN /\ renderers' = [rs1 EXCEPT ![FreshRenderer] =
                                             [state |-> "live", frame_blob |-> NULL,
                                              draw_line |-> draw_line]]
                          /\ debugRenderer' = FreshRenderer
                          /\ dw_drawer' = FreshRenderer
                     ELSE /\ renderers' = rs1
                          /\ UNCHANGED <<debugRenderer, dw_drawer>>
            /\ out' = NoOut
            /\ contacts' = {}
            /\ UNCHANGED <<registered, slabVars, entVars, sink_log, heapVars>>

\* what using the world's renderer pointer does
RendererUB(rs, p) ==
    IF p = NULL THEN {"null_deref"}
    ELSE IF rs[p].state = "freed" THEN {"use_after_free"}
    ELSE {}

\* dynworld_debug_draw: setFrameBlob(frame_blob), debugDrawWorld(),
\* setFrameBlob(nullptr).  debugDrawWorld draws through the dynamics world's
\* drawer, some lines per registered object.  Through a null or a freed
\* renderer pointer the call is undefined: the process dies, or the call goes
\* on, drawing nothing through a null drawer and, through a freed object whose
\* memory is still intact, as if the object were alive.
dynworld_debug_draw(world, frame_blob) ==
    IF world = NULL THEN debug_null_world("dynworld_debug_draw")
    ELSE LET bad == RendererUB(renderers, debugRenderer)
             att == setFrameBlob(renderers, debugRenderer, frame_blob)
         IN /\ Idle
            /\ world # NULL
            /\ ub' = ub \cup bad
            /\ \/ /\ bad # {}
                  /\ crashed' = TRUE
                  /\ last' = [NoLast EXCEPT !.op = "dynworld_debug_draw", !.h = debugRenderer]
                  /\ UNCHANGED <<renderers, sink_log>>
               \/ /\ debugRenderer = NULL
                  /\ crashed' = FALSE
                  /\ last' = [NoLast EXCEPT !.op = "dynworld_debug_draw", !.h = debugRenderer]
                  /\ UNCHANGED <<renderers, sink_log>>
               \/ /\ debugRenderer # NULL
                  /\ crashed' = FALSE
                  /\ \E n \in 0..MaxSinkLog :
                        /\ (registered = {} \/ dw_drawer = NULL) => n = 0
                        /\ Len(sink_log) + n <= MaxSinkLog
                        /\ sink_log' = sink_log \o
                              [i \in 1..n |-> drawLine(att, dw_drawer)]
                        /\ last' = [NoLast EXCEPT !.op = "dynworld_debug_draw",
                                                  !.h = debugRenderer, !.lines = n,
                                                  !.blob = frame_blob]
                  /\ renderers' = Detach(att, debugRenderer)
            /\ out' = NoOut
            /\ contacts' = {}
            /\ UNCHANGED <<registered, slabVars, entVars, debugRenderer, dw_drawer, heapVars>>

\* DebugRenderer::drawLine reached by the dynamics world through the drawer it
\* was given with setDebugDrawer, at a moment when no dynworld_debug_draw call
\* is running: this->draw_line(this->frame_blob, from, to, color), with no test
\* of frame_blob.  Through a freed forwarder the call is undefined: the process
\* dies, or the call goes on as if the object were alive.
DebugRenderer_drawLine ==
    LET bad == IF renderers[dw_drawer].state = "freed" THEN {"use_after_free"} ELSE {}
    IN /\ Idle
       /\ dw_drawer # NULL
       /\ ub' = ub \cup bad
       /\ \/ /\ bad # {}
             /\ crashed' = TRUE
             /\ last' = [NoLast EXCEPT !.op = "drawLine", !.h = dw_drawer]
             /\ UNCHANGED sink_log
          \/ /\ crashed' = FALSE
             /\ Len(sink_log) < MaxSinkLog
             /\ sink_log' = Append(sink_log, drawLine(renderers, dw_drawer))
             /\ last' = [NoLast EXCEPT !.op = "drawLine", !.h = dw_drawer,
                                       !.lines = 1,
                                       !.blob = renderers[dw_drawer].frame_blob]
       /\ out' = NoOut
       /\ contacts' = {}
       /\ UNCHANGED <<registered, slabVars, entVars, renderers, debugRenderer,
                      dw_drawer, heapVars>>

\* ------------------------------------------------- the world's life cycle
\* dynworld_create: new(std::nothrow) dynworld(gravity).  `failed` numbers the
\* allocation that fails: 0 for none, 1 for the dynworld object itself, 1 + i
\* for the i-th subsystem the constructor allocates.  The nothrow new returns
\* null when the object itself cannot be had.  A new inside the constructor
\* throws std::bad_alloc: the object's storage is released, the subsystems
\* already allocated are not (no destructor runs for an object whose
\* constructor did not finish), and the exception leaves the bridge; a caller
\* that cannot unwind it dies.
dynworld_create(failed) ==
    /\ ~crashed /\ call.pc = "idle" /\ dw.state = "none"
    /\ failed \in 0..(1 + Len(Subsystems))
    /\ IF failed = 0
       THEN /\ dw' = BuiltWorld
            /\ last' = [NoLast EXCEPT !.op = "dynworld_create", !.ret = TheWorld]
            /\ UNCHANGED <<leaks, crashed>>
       ELSE IF failed = 1
       THEN /\ last' = [NoLast EXCEPT !.op = "dynworld_create", !.ret = NULL,
                                      !.failed = failed]
            /\ UNCHANGED <<dw, leaks, crashed>>
       ELSE /\ leaks' = leaks \cup {Subsystems[i] : i \in 1..(failed - 2)}
            /\ crashed' \in BOOLEAN
            /\ last' = [NoLast EXCEPT !.op = "dynworld_create:threw", !.ret = NULL,
                                      !.failed = failed]
            /\ UNCHANGED dw
    /\ out' = NoOut
    /\ contacts' = {}
    /\ UNCHANGED <<registered, slabVars, entVars, debugVars, ub>>

\* who keeps a pointer to whom: the dispatcher to the configuration it was
\* built with, the dynamics world to its four constructor arguments and to the
\* debug drawer it was given, the broadphase's pair cache to the ghost-pair
\* callback set on it
Holds(drawer) ==
    {<<"dispatcher", "collisionConfiguration">>,
     <<"dynamicsWorld", "dispatcher">>,
     <<"dynamicsWorld", "overlappingPairCache">>,
     <<"dynamicsWorld", "solver">>,
     <<"dynamicsWorld", "collisionConfiguration">>,
     <<"overlappingPairCache", "ghostCallback">>}
    \cup (IF drawer # NULL THEN {<<"dynamicsWorld", "debugRenderer">>} ELSE {})

DestroyOrder_asBuilt == Subsystems \o <<"debugRenderer">>

\* ~dynworld: the delete statements, in program order
DestroyOrder ==
    <<"dynamicsWorld", "solver", "overlappingPairCache", "dispatcher",
      "collisionConfiguration", "ghostCallback", "debugRenderer">>

\* dynworld_destroy: delete world.  Nothing for a null world; otherwise the
\* destructor starts
dynworld_destroy(world) ==
    /\ Idle
    /\ dw' = IF world # NULL THEN [dw EXCEPT !.state = "destroying"] ELSE dw
    /\ last' = [NoLast EXCEPT !.op = "dynworld_destroy:enter", !.world = world]
    /\ out' = NoOut
    /\ contacts' = {}
    /\ UNCHANGED <<registered, slabVars, entVars, debugVars, ub, crashed, leaks>>

\* the destructor's next delete statement.  The debug renderer is deleted
\* through the world's pointer, which is undefined if that object was freed
\* before: the process dies or the destructor goes on.  After the last
\* statement the world's own storage is released.
DestroyNext ==
    LET k    == Len(dw.freed) + 1
        name == DestroyOrder[k]
        bad  == IF name = "debugRenderer" THEN DeleteUB(renderers, debugRenderer)
                ELSE {}
        done == k = Len(DestroyOrder)
    IN /\ ~crashed /\ dw.state = "destroying"
       /\ ub' = ub \cup bad
       /\ \/ /\ bad # {}
             /\ crashed' = TRUE
             /\ UNCHANGED <<dw, renderers, last>>
          \/ /\ crashed' = FALSE
             /\ dw' = [dw EXCEPT
                         !.freed = Append(@, name),
                         !.sub = [n \in SubsystemNames |->
                                    IF n = name THEN "freed" ELSE @[n]],
                         !.state = IF done THEN "destroyed" ELSE @]
             /\ renderers' = IF name = "debugRenderer"
                             THEN DeleteRenderer(renderers, debugRenderer)
                             ELSE renderers
             /\ last' = IF done
                        THEN [NoLast EXCEPT !.op = "dynworld_destroy"]
                        ELSE last
       /\ UNCHANGED <<registered, slabVars, entVars, contacts, out, debugRenderer,
                      dw_drawer, sink_log, leaks>>

\* ------------------------------------------------------- sensor geometry
\* Lengths are btScalar values held as whole hundredths; a product of two
\* lengths, and every world position, is held in ten-thousandths.
Unit       == 100
ExtentStep == 20

\* indices into a btVector3
SIDE_DIM == 0
FWD_DIM  == 1
UP_DIM   == 2

At(v, dim) == v[dim + 1]

HalfExtents == {k * ExtentStep : k \in 1..MaxExtent}
HalfDims    == {<<w, d, h>> : w \in HalfExtents, d \in HalfExtents, h \in HalfExtents}
Margins     == {0, 4}        \* the engine's collision margin for a box
Turns       == 0..3          \* rotation about UP, in quarter turns
BodyOrigins == {<<0, 0, 0>>, <<Unit * Unit, 0, 2 * Unit * Unit>>}

\* entity_jump_sensor's constructor: sensor_dims = half_dims with the side
\* and forward components times 0.8 and the up component times 0.25
SensorDims(half_dims) ==
    <<(At(half_dims, SIDE_DIM) * 8) \div 10,
      (At(half_dims, FWD_DIM) * 8) \div 10,
      (At(half_dims, UP_DIM) * 25) \div 100>>

\* shape.getHalfExtentsWithoutMargin()[FWD_DIM] of btBoxShape(sensor_dims):
\* the box keeps its half-extents less the engine's collision margin
ShapeHalfFwd(sensor_dims, margin) == At(sensor_dims, FWD_DIM) - margin

\* FWD * half_dims[FWD_DIM] * (2.0 - shape.getHalfExtentsWithoutMargin()[FWD_DIM])
ForwardOffset(half_dims, shape_fwd) == At(half_dims, FWD_DIM) * (2 * Unit - shape_fwd)

DownOffset_quarter(half_dims) == (At(half_dims, UP_DIM) * Unit) \div 4

\* UP * half_dims[UP_DIM] * -0.5, as a distance downwards
DownOffset(half_dims) == (At(half_dims, UP_DIM) * Unit) \div 2

\* a vector turned about UP by quarter turns
RotateUp(turn, v) ==
    IF turn = 0 THEN v
    ELSE IF turn = 1 THEN <<-v[2], v[1], v[3]>>
    ELSE IF turn = 2 THEN <<-v[1], -v[2], v[3]>>
    ELSE <<v[2], -v[1], v[3]>>

\* update_jump_sensor_transform: body.setWorldTransform(body_transform *
\* transform), transform being the identity moved by the two offsets
update_jump_sensor_transform(g) ==
    LET translation == <<0, ForwardOffset(g.half_dims, g.shape_fwd),
                         -DownOffset(g.half_dims)>>
        moved       == RotateUp(g.turn, translation)
    IN [g EXCEPT !.sorigin = <<g.origin[1] + moved[1], g.origin[2] + moved[2],
                               g.origin[3] + moved[3]>>,
                 !.sturn = g.turn]

\* new entity_collider(shape, desc, dims, true): the body at the start
\* transform, unrotated; the sensor built from half_dims and put in place
entity_collider_new(half_dims, center, margin) ==
    LET sd == SensorDims(half_dims)
        g  == [NoGeom EXCEPT !.half_dims = half_dims, !.sensor_dims = sd,
                             !.shape_fwd = ShapeHalfFwd(sd, margin),
                             !.origin = center, !.turn = 0]
    IN /\ Idle
       /\ \E f \in EntityIds : ents[f].state = "unalloc"
       /\ ents' = [ents EXCEPT ![FreshEnt] =
                      [NoEnt EXCEPT !.state = "live", !.sensor = TRUE,
                                    !.geom = update_jump_sensor_transform(g)]]
       /\ last' = [NoLast EXCEPT !.op = "entity_collider", !.ret = FreshEnt]
       /\ out' = NoOut
       /\ contacts' = {}
       /\ UNCHANGED <<registered, slabVars, debugVars, ub, crashed, heapVars>>

\* the body's transform written and the sensor re-placed, as
\* entity_collider_set does before it applies the force
place(collider, origin, turn) ==
    /\ Idle
    /\ collider \in LiveEnts
    /\ ents' = [ents EXCEPT ![collider].geom =
                   update_jump_sensor_transform([@ EXCEPT !.origin = origin,
                                                         !.turn = turn])]
    /\ last' = [NoLast EXCEPT !.op = "update_jump_sensor_transform", !.h = collider]
    /\ out' = NoOut
    /\ contacts' = {}
    /\ UNCHANGED <<registered, slabVars, debugVars, ub, crashed, heapVars>>

\* ------------------------------------------------------------ specification
CreateStep ==
    \E center \in Positions, jump_sensor \in BOOLEAN :
        entity_collider_create(TheWorld, center, jump_sensor)

GetStep    == \E collider \in {NULL} \cup LiveEnts : entity_collider_get(TheWorld, collider)

GetPosStep == \E collider \in {NULL} \cup LiveEnts : entity_collider_get_pos(collider)

SetStep ==
    \E collider \in {NULL} \cup LiveEnts, vel \in Vels, jump_action \in JumpActions :
       \E pose \in IF collider = NULL THEN {<<0, 0>>} ELSE Poses :
          entity_collider_set(collider, pose[1], pose[2], vel, jump_action)

SetDrawerStep ==
    \E draw_line \in {NULL} \cup Sinks : dynworld_set_debug_drawer(TheWorld, draw_line)

DebugDrawStep == \E frame_blob \in Blobs : dynworld_debug_draw(TheWorld, frame_blob)

\* a caller that ticks at one fixed rate, with a whole tick or no time elapsed
TickStep == \E elapsed_seconds \in {0, 1} : dynworld_step(TheWorld, elapsed_seconds, 1)

\* the world: slabs streamed in, entities created, the simulation stepped
Next ==
    \/ slab_collider_update(TheWorld)
    \/ CreateStep
    \/ TickStep

Spec == Init /\ [][Next]_vars

\* slab_collider_update while memory runs out
SlabAllocFails ==
    \E prev \in {NULL} \cup SlabIds, failed \in 1..Len(BufferAllocs) :
        SlabCopyThrows(TheWorld, prev, failed)

\* the slab hot swap on its own, with entities to sense the slabs, and with
\* memory that may run out as a call copies its buffers
NextSlab ==
    \/ slab_collider_update(TheWorld)
    \/ SlabAllocFails
    \/ CreateStep

SpecSlab == Init /\ [][NextSlab]_vars

\* the debug-draw bridge, over a world that entities are added to
NextDebug ==
    \/ SetDrawerStep
    \/ DebugDrawStep
    \/ CreateStep

SpecDebug == Init /\ [][NextDebug]_vars

\* the debug-draw bridge with the dynamics world free to call its drawer
\* between the bridge's calls
NextForward ==
    \/ SetDrawerStep
    \/ DebugDrawStep
    \/ CreateStep
    \/ DebugRenderer_drawLine

SpecForward == Init /\ [][NextForward]_vars

DeleteEntityStep == \E collider \in {NULL} \cup LiveEnts : delete_entity_collider(collider)

\* entities from creation to destruction, read in between
NextEntity ==
    \/ CreateStep
    \/ GetStep
    \/ GetPosStep
    \/ DeleteEntityStep

SpecEntity == Init /\ [][NextEntity]_vars

NewGeomStep ==
    \E half_dims \in HalfDims, center \in BodyOrigins, margin \in Margins :
        entity_collider_new(half_dims, center, margin)

PlaceStep ==
    \E collider \in LiveEnts, origin \in BodyOrigins, turn \in Turns :
        place(collider, origin, turn)

\* the sensor's numbers: entity colliders built with a sensor, then moved
NextPlace ==
    \/ NewGeomStep
    \/ PlaceStep

SpecPlace == Init /\ [][NextPlace]_vars

\* the per-tick life of the entities SpecSensor follows: pose reads with the
\* sensor poll, pose writes, steps, and slab updates under them
NextSensor ==
    \/ slab_collider_update(TheWorld)
    \/ (Cardinality(LiveEnts) < MaxSensed /\ CreateStep)
    \/ GetStep
    \/ GetPosStep
    \/ SetStep
    \/ TickStep

SpecSensor == Init /\ [][NextSensor]_vars

StepStep ==
    \E elapsed_seconds \in Elapsed, fixed_rate \in FixedRates :
        dynworld_step(TheWorld, elapsed_seconds, fixed_rate)

RenderStep ==
    \E elapsed_seconds \in Elapsed : dynworld_step_render_only(TheWorld, elapsed_seconds)

\* the clock: steps and render-only steps of any length at any rate, over
\* an entity that is moved and pushed
NextStep ==
    \/ (Cardinality(LiveEnts) < MaxSensed /\ CreateStep)
    \/ SetStep
    \/ StepStep
    \/ RenderStep

SpecStep == Init /\ [][NextStep]_vars

\* every entry point that takes a world handle, called with a null one
NullWorldStep ==
    \/ \E fixed_rate \in FixedRates : dynworld_step(NULL, fixed_rate, fixed_rate)
    \/ \E elapsed_seconds \in {1} : dynworld_step_render_only(NULL, elapsed_seconds)
    \/ \E draw_line \in {NULL} \cup Sinks : dynworld_set_debug_drawer(NULL, draw_line)
    \/ \E frame_blob \in Blobs : dynworld_debug_draw(NULL, frame_blob)
    \/ slab_collider_update(NULL)
    \/ \E center \in Positions, jump_sensor \in BOOLEAN :
          entity_collider_create(NULL, center, jump_sensor)
    \/ \E collider \in {NULL} \cup LiveEnts : entity_collider_get(NULL, collider)

\* a caller that hands in a null world now and then, among slab updates,
\* entity creation and pose reads on the real one
NextNull ==
    \/ slab_collider_update(TheWorld)
    \/ (Cardinality(LiveEnts) < MaxSensed /\ CreateStep)
    \/ GetStep
    \/ NullWorldStep

SpecNull == Init /\ [][NextNull]_vars

\* before dynworld_create: nothing exists yet
InitWorld ==
    /\ registered = {}
    /\ slabs = [s \in SlabIds |-> NoSlab]
    /\ call = NoCall
    /\ ents = [e \in EntityIds |-> NoEnt]
    /\ contacts = {}
    /\ out = NoOut
    /\ renderers = [r \in RendererIds |-> NoRenderer]
    /\ debugRenderer = NULL
    /\ dw_drawer = NULL
    /\ sink_log = <<>>
    /\ ub = {}
    /\ crashed = FALSE
    /\ last = NoLast
    /\ dw = NoWorld
    /\ leaks = {}

CreateWorldStep == \E failed \in 0..(1 + Len(Subsystems)) : dynworld_create(failed)

DestroyStep == \E world \in {NULL, TheWorld} : dynworld_destroy(world)

\* a world from creation to destruction: created while memory may run out,
\* given entities and debug drawers, then destroyed
NextWorld ==
    \/ CreateWorldStep
    \/ CreateStep
    \/ SetDrawerStep
    \/ DestroyStep
    \/ DestroyNext

SpecWorld == InitWorld /\ [][NextWorld]_vars

\* ==================================================================== claims
SlabBodies    == GroupObjs(registered, COL_WORLD)
NullMadeSlabs == {s \in SlabIds : slabs[s].state # "unalloc" /\ slabs[s].made_from = NULL}

\* C1 as stated: whenever every call passes null or a live slab handle as prev,
\* at most one slab body is registered in the world, in every state.
C1_AtMostOneSlabBody == Cardinality(SlabBodies) <= 1

\* C1 amended: when every call passes the live slab handle as prev whenever a
\* slab is live (so that at most one collider was ever made from a null prev),
\* at most one slab body is registered, after each call and inside each call.
C1_AtMostOneSlabBodyWhenPrevIsLive ==
    Cardinality(NullMadeSlabs) <= 1 => Cardinality(SlabBodies) <= 1

\* a replacement has returned and the world holds the one new slab body
C1_Witness ==
    /\ last.op = "slab_collider_update" /\ last.h # NULL
    /\ Cardinality(NullMadeSlabs) = 1
    /\ SlabBodies = {SlabObj(last.ret)}

\* C2: inside a call with a non-null prev, prev's body is removed from the
\* world, then prev is freed, and only then is the new body registered; no
\* freed collider's body is ever registered, and the handle returned is the new,
\* live collider and not prev.
C2_RemoveFreeThenRegister ==
    /\ \A s \in SlabIds : slabs[s].state = "freed" => SlabObj(s) \notin Objs(registered)
    /\ (call.pc = "copied" /\ call.prev # NULL) => slabs[call.prev].state = "live"
    /\ (call.pc = "removed" /\ call.prev # NULL) =>
          /\ SlabObj(call.prev) \notin Objs(registered)
          /\ slabs[call.prev].state = "live"
    /\ (call.pc \in {"deleted", "built"} /\ call.prev # NULL) =>
          /\ SlabObj(call.prev) \notin Objs(registered)
          /\ slabs[call.prev].state = "freed"
    /\ (call.pc = "built") => SlabObj(call.new) \notin Objs(registered)
    /\ (last.op = "slab_collider_update") =>
          /\ last.ret # NULL /\ last.ret # last.h
          /\ slabs[last.ret].state = "live"
          /\ SlabObj(last.ret) \in Objs(registered)
          /\ (last.h # NULL => /\ slabs[last.h].state = "freed"
                               /\ SlabObj(last.h) \notin Objs(registered))

\* a call with a non-null prev has returned
C2_Witness ==
    /\ last.op = "slab_collider_update" /\ last.h # NULL
    /\ slabs[last.h].state = "freed"

worldVars == <<registered, slabs, call, ents, renderers, debugRenderer, dw_drawer,
               sink_log, ub, crashed, dw, leaks>>

\* C3: dynworld_debug_draw on a world whose drawer was never installed is a
\* no-op: no sink invocation, no state change, no null renderer dereferenced.
C3_DebugDrawWithoutDrawerIsNoOp ==
    [][(debugRenderer = NULL /\ last'.op = "dynworld_debug_draw")
          => UNCHANGED worldVars]_vars

LiveRenderers == {r \in RendererIds : renderers[r].state = "live"}

\* C4: after dynworld_set_debug_drawer(world, none) no drawer is installed,
\* neither in the world's slot nor in the dynamics world, and a later
\* dynworld_debug_draw invokes no sink; after installing a sink, exactly the
\* new forwarder is installed and no older one is alive.
C4_SetDrawerInstallsOrRemoves ==
    /\ (last.op = "dynworld_set_debug_drawer" /\ ~crashed) =>
           IF last.h = NULL
           THEN debugRenderer = NULL /\ dw_drawer = NULL
           ELSE /\ debugRenderer # NULL /\ dw_drawer = debugRenderer
                /\ LiveRenderers = {debugRenderer}
                /\ renderers[debugRenderer].draw_line = last.h
    /\ (last.op = "dynworld_debug_draw" /\ LiveRenderers = {}) => last.lines = 0

Kind(o) == o[1]

\* C5: the three group flags are pairwise disjoint bits; among registered
\* objects the filter lets only a slab and an entity body, or a slab and a jump
\* sensor, collide, and every contact the engine or a poll produces is between
\* such a pair: never entity-entity, sensor-sensor or entity-sensor.
C5_CollisionMasks ==
    /\ BitAnd(COL_WORLD, COL_ENTITIES) = 0
    /\ BitAnd(COL_WORLD, COL_ENTITY_JUMP_SENSOR) = 0
    /\ BitAnd(COL_ENTITIES, COL_ENTITY_JUMP_SENSOR) = 0
    /\ COL_WORLD # 0 /\ COL_ENTITIES # 0 /\ COL_ENTITY_JUMP_SENSOR # 0
    /\ \A a \in registered, b \in registered :
          (a # b /\ NeedsCollision(a, b)) =>
             {Kind(a.obj), Kind(b.obj)} \in {{"slab", "body"}, {"slab", "sensor"}}
    /\ \A a \in registered, b \in registered :
          {Kind(a.obj), Kind(b.obj)} \in {{"slab", "body"}, {"slab", "sensor"}}
             => NeedsCollision(a, b)
    /\ \A pr \in contacts :
          {Kind(o) : o \in pr} \in {{"slab", "body"}, {"slab", "sensor"}}

\* a step produced slab-body and slab-sensor contacts while two entity bodies,
\* one of them with a sensor, sat at the same place without any contact
C5_Witness ==
    /\ \E pr \in contacts : {Kind(o) : o \in pr} = {"slab", "body"}
    /\ \E pr \in contacts : {Kind(o) : o \in pr} = {"slab", "sensor"}
    /\ \E e \in LiveEnts, f \in LiveEnts :
          /\ e # f /\ ents[e].pos = ents[f].pos
          /\ ents[e].sensor /\ ents[e].spos = ents[e].pos
          /\ {BodyObj(e), BodyObj(f)} \notin contacts

SensoredEnts == {e \in LiveEnts : ents[e].sensor}

\* C6: the jump-sensor-group objects registered are exactly the sensors of the
\* entities created with jump_sensor = true, one each; every entity's body is
\* registered under the ENTITIES group and mask; an entity created without a
\* sensor adds its body and nothing else.
C6_SensorsRegisteredIffWanted ==
    /\ GroupObjs(registered, COL_ENTITY_JUMP_SENSOR) = {SensorObj(e) : e \in SensoredEnts}
    /\ Cardinality(GroupObjs(registered, COL_ENTITY_JUMP_SENSOR)) = Cardinality(SensoredEnts)
    /\ GroupObjs(registered, COL_ENTITIES) = {BodyObj(e) : e \in LiveEnts}
    /\ \A e \in LiveEnts :
          [obj |-> BodyObj(e), group |-> COL_ENTITIES, mask |-> COLMASK_ENTITY]
             \in registered
    /\ \A r \in registered :
          Kind(r.obj) = "sensor" =>
             r.group = COL_ENTITY_JUMP_SENSOR /\ r.mask = COLMASK_ENTITY_JUMP_SENSOR

\* an entity was just created without a sensor beside one that has a sensor
C6_Witness ==
    /\ last.op = "entity_collider_create"
    /\ ~ents[last.ret].sensor
    /\ Cardinality(SensoredEnts) = 1
    /\ Cardinality(LiveEnts) = 2

PolledBy(op) ==
    /\ last.op = op /\ last.h # NULL
    /\ ents[last.h].sensor

\* C7: a poll returns true exactly when at least one of its contact tests
\* reported a contact, and the occlusion bit is clear whenever no poll is
\* running, so no poll sees what an earlier poll found.
C7_PollTrueIffContactThisPoll ==
    /\ \A e \in EntityIds : ents[e].occluded = 0
    /\ PolledBy("entity_collider_get") =>
          /\ (out.occluded = "occluded") <=> (last.hits > 0)
          /\ out.occluded \in {"occluded", "clear"}
          /\ ents[last.h].reported = out.occluded

\* a poll ran two contact tests, both reported a contact, and returned true
C7_Witness ==
    /\ PolledBy("entity_collider_get")
    /\ last.hits = 2
    /\ out.occluded = "occluded"

\* C8: a poll of a placed sensor with no overlapping object returns false,
\* runs no contact test and leaves the bit clear.
C8_PollWithoutOverlapsIsFalse ==
    (PolledBy("entity_collider_get") /\ last.overlapping = 0) =>
        /\ out.occluded = "clear"
        /\ last.tests = 0 /\ last.hits = 0
        /\ ents[last.h].occluded = 0

\* a sensor was polled with no overlapping object, in a world that holds a
\* slab out of its reach
C8_Witness ==
    /\ PolledBy("entity_collider_get") /\ last.overlapping = 0
    /\ SlabBodies # {}
    /\ out.occluded = "clear"

Jumped == last.applied[2] = last.vel[2] + JumpForce

SetOn(action) ==
    /\ last.op = "entity_collider_set" /\ last.h # NULL
    /\ last.action = action

EntityOps == {"entity_collider_get", "entity_collider_get_pos", "entity_collider_set"}

\* C10: entity_collider_get, entity_collider_get_pos and entity_collider_set
\* with a null entity handle return a non-zero code, write no output and change
\* no world or entity state; with a valid entity handle (and a valid world)
\* they return 0.
C10_NullEntityHandleFails ==
    [][last'.op \in EntityOps =>
          IF last'.h = NULL
          THEN /\ last'.ret # 0
               /\ out' = NoOut
               /\ UNCHANGED worldVars
          ELSE last'.ret = 0]_vars

\* entity_collider_get has failed on a null handle in a world that holds a
\* sensor-bearing entity with a slab in its overlap list
C10_Witness ==
    /\ last.op = "entity_collider_get" /\ last.h = NULL /\ last.ret = -1
    /\ \E e \in SensoredEnts : ents[e].overlaps # {}

\* C11: every entry point that takes a world handle treats a null world as a
\* reported failure or a safe no-op: the null world is never read through, the
\* process survives, and entity_collider_get on a sensor-bearing entity with a
\* null world returns a failure code.
C11_NullWorldIsFailureOrNoOp ==
    last.world = NULL =>
        /\ "null_world" \notin ub
        /\ ~crashed
        /\ (last.op = "entity_collider_get" /\ last.h # NULL /\ ents[last.h].sensor)
              => last.ret # 0

\* C12: when the allocation of the vertex or the index copy fails inside
\* slab_collider_update, the call ends in an error with the world as it was:
\* the registered objects are unchanged, the previous slab is still registered
\* and not freed, no new slab exists, and no buffer allocated earlier in the
\* call is left owned by nobody.
C12_AllocFailureLeavesNothingBehind ==
    [][last'.op = "slab_collider_update:threw" =>
          /\ registered' = registered
          /\ slabs' = slabs
          /\ (last'.h # NULL => /\ SlabObj(last'.h) \in Objs(registered')
                                /\ slabs'[last'.h].state = "live")
          /\ leaks' = leaks]_vars

CreateOps == {"dynworld_create", "dynworld_create:threw"}

\* C13: dynworld_create fails only when an allocation fails, and whenever an
\* allocation fails - of the world object or of any subsystem - it returns a
\* null handle, lets no exception out and leaves no subsystem allocated.
C13_CreateFailsCleanly ==
    last.op \in CreateOps =>
        /\ (last.failed = 0 => last.ret # NULL /\ dw = BuiltWorld)
        /\ (last.failed # 0 =>
               /\ last.op = "dynworld_create" /\ last.ret = NULL
               /\ ~crashed
               /\ leaks = {}
               /\ dw = NoWorld)

Installed == debugRenderer # NULL /\ debugRenderer \in LiveRenderers

\* C14: in dynworld_debug_draw(world, ctx) with a drawer installed every sink
\* invocation carries ctx as its first argument and happens inside the call;
\* when the call returns the forwarder's frame-context slot is null again; and
\* no step other than a dynworld_debug_draw call invokes the sink.
C14_SinkCalledInsideDrawWithCtx ==
    [][/\ sink_log' # sink_log =>
             /\ last'.op = "dynworld_debug_draw"
             /\ Len(sink_log') = Len(sink_log) + last'.lines
             /\ \A i \in (Len(sink_log) + 1)..Len(sink_log') :
                    sink_log'[i][2] = last'.blob
       /\ (last'.op = "dynworld_debug_draw" /\ Installed) =>
             /\ ~crashed'
             /\ SubSeq(sink_log', 1, Len(sink_log)) = sink_log
             /\ \A i \in (Len(sink_log) + 1)..Len(sink_log') :
                    sink_log'[i] = <<renderers[debugRenderer].draw_line, last'.blob>>
             /\ renderers'[debugRenderer].frame_blob = NULL
       /\ \A r \in RendererIds :
             renderers'[r].state = "live" => renderers'[r].frame_blob = NULL]_vars

\* two draw calls with different contexts have each reached the installed
\* sink with their own context, and the slot is null again
C14_Witness ==
    /\ last.op = "dynworld_debug_draw" /\ Installed /\ last.lines = 1
    /\ Len(sink_log) = 2
    /\ sink_log[1][2] # sink_log[2][2]
    /\ sink_log[2] = <<renderers[debugRenderer].draw_line, last.blob>>
    /\ renderers[debugRenderer].frame_blob = NULL

\* C15: a dynworld_step call runs at most one physics substep, however large
\* elapsed_seconds and however many steps are due: one when at least one is
\* due, none otherwise; no body moves by more than one substep's worth.
C15_StepRunsAtMostOneSubstep ==
    [][last'.op = "dynworld_step" =>
          /\ last'.substeps <= 1
          /\ last'.substeps = (IF last'.due >= 1 THEN 1 ELSE 0)
          /\ \A e \in EntityIds : ents[e].pos - ents'[e].pos <= 1]_vars

\* a step with three substeps due has run one
C15_Witness ==
    /\ last.op = "dynworld_step"
    /\ last.due = 3
    /\ last.substeps = 1

\* C16: dynworld_step_render_only never runs a physics substep, whatever
\* elapsed_seconds and whatever time has accumulated, and leaves the dynamics
\* state - positions and applied forces - unchanged.
C16_RenderOnlyRunsNoSubstep ==
    [][last'.op = "dynworld_step_render_only" =>
          /\ last'.substeps = 0
          /\ \A e \in EntityIds :
                /\ ents'[e].pos = ents[e].pos
                /\ ents'[e].force = ents[e].force]_vars

\* C17: destroying a world deletes its subsystems in exactly the order
\* dynamics world, solver, broadphase, dispatcher, collision configuration,
\* ghost-pair callback, debug renderer, all of them once the destructor is
\* through; and at no point of it is a subsystem deleted while a subsystem
\* that holds a pointer to it has yet to be deleted.
C17_DestroyOrderDependentsFirst ==
    LET claimed == <<"dynamicsWorld", "solver", "overlappingPairCache", "dispatcher",
                     "collisionConfiguration", "ghostCallback", "debugRenderer">>
        n       == Len(dw.freed)
    IN /\ n <= Len(claimed)
       /\ dw.freed = SubSeq(claimed, 1, n)
       /\ dw.state = "destroyed" => n = Len(claimed)
       /\ dw.state \in {"none", "live"} => n = 0
       /\ \A name \in SubsystemNames :
             dw.sub[name] = "freed" <=> \E i \in 1..n : dw.freed[i] = name
       /\ \A k \in 1..n : \A pr \in Holds(dw_drawer) :
             pr[2] = dw.freed[k] => \E i \in 1..(k - 1) : dw.freed[i] = pr[1]

\* a world with a debug drawer and an entity in it has been destroyed, the
\* drawer's forwarder last of all
C17_Witness ==
    /\ dw.state = "destroyed"
    /\ last.op = "dynworld_destroy"
    /\ dw_drawer # NULL /\ renderers[dw_drawer].state = "freed"
    /\ "double_free" \notin ub
    /\ LiveEnts # {}

\* where entity e's sensor belongs, given where its body is now
PlacementNow(e) == SensorPlacement(ents[e].pos, ents[e].rot)

\* C18: whenever a sensor poll runs through entity_collider_get, the sensor
\* sits at the placement derived from the body's current transform: the body
\* has not moved, by a step or by a pose write, since the sensor was placed.
C18_PollSeesSensorInPlace ==
    PolledBy("entity_collider_get") =>
        /\ ents[last.h].spos = PlacementNow(last.h).spos
        /\ ents[last.h].srot = PlacementNow(last.h).srot

\* C19: in an entity_collider_set call on a valid entity the transform is
\* written, then the sensor, if there is one, is re-placed from the transform
\* this call wrote, then the force is applied: on return the sensor sits at the
\* placement of the new transform, an entity without a sensor has none moved,
\* and the total force has grown by the force this call applied.
C19_SetWritesPlacesThenPushes ==
    [][(last'.op = "entity_collider_set" /\ last'.h # NULL) =>
          LET e == last'.h
          IN /\ ents'[e].sensor =>
                   /\ ents'[e].spos = SensorPlacement(ents'[e].pos, ents'[e].rot).spos
                   /\ ents'[e].srot = SensorPlacement(ents'[e].pos, ents'[e].rot).srot
             /\ ~ents'[e].sensor =>
                   /\ ents'[e].spos = ents[e].spos
                   /\ ents'[e].srot = ents[e].srot
             /\ ents'[e].force = <<ents[e].force[1] + last'.applied[1],
                                   ents[e].force[2] + last'.applied[2]>>]_vars

\* a pose write has moved a sensor-bearing entity away from where the
\* broadphase last saw its sensor, and the sensor has followed the body
C19_Witness ==
    /\ last.op = "entity_collider_set" /\ last.h # NULL
    /\ ents[last.h].sensor
    /\ ents[last.h].spos # ents[last.h].bpos
    /\ ents[last.h].spos = PlacementNow(last.h).spos
    /\ ents[last.h].force # <<0, 0>>

\* C20: outside an executing poll every sensor's occlusion bit is 0: no call
\* finds a set bit when it starts or leaves one when it returns, and in
\* particular the second of two consecutive entity_collider_set calls with the
\* conditional jump action, with no poll between them, finds the bit clear.
C20_BitClearOutsidePoll ==
    [][/\ \A e \in EntityIds : ents[e].occluded = 0 /\ ents'[e].occluded = 0
       /\ (last'.op = "entity_collider_set" /\ last'.h # NULL /\ last'.again
             /\ last'.action = IF_SENSOR_OCCLUDED)
             => ents[last'.h].occluded = 0]_vars

\* the second of two consecutive conditional pose writes, after a poll that
\* found the sensor occluded by a slab it still overlaps
C20_Witness ==
    /\ last.op = "entity_collider_set" /\ last.h # NULL /\ last.again
    /\ last.action = IF_SENSOR_OCCLUDED
    /\ ents[last.h].sensor
    /\ last.seen = "occluded"
    /\ ents[last.h].overlaps # {}
    /\ ents[last.h].occluded = 0

\* C21: a draw-line event that reaches a live forwarder whose frame-context
\* slot holds null, outside a dynworld_debug_draw call, does not invoke the
\* sink.
C21_DetachedDrawLineIsNoOp ==
    [][(/\ last'.op = "drawLine"
        /\ renderers[dw_drawer].state = "live"
        /\ renderers[dw_drawer].frame_blob = NULL)
       => sink_log' = sink_log]_vars

\* which part of a slab collider keeps a raw pointer into which: the mesh
\* interface into the two buffers, the shape to the mesh, the body to the shape
SlabAliases ==
    {<<"mesh", "vertices">>, <<"mesh", "indices">>, <<"shape", "mesh">>,
     <<"slab_body", "shape">>}

IndexIn(seq, x) == CHOOSE i \in 1..Len(seq) : seq[i] = x

\* C22: over a slab collider's life every part outlives the parts that point
\* into it: it is allocated before them and, on destruction, freed after
\* them (body, then shape, then mesh, then the buffers).
C22_SlabPartsOutliveTheirUsers ==
    \A s \in SlabIds : \A a \in SlabAliases :
        /\ slabs[s].state # "unalloc" =>
              IndexIn(slabs[s].built, a[2]) < IndexIn(slabs[s].built, a[1])
        /\ slabs[s].state = "freed" =>
              IndexIn(slabs[s].freed, a[1]) < IndexIn(slabs[s].freed, a[2])

\* C23: over any sequence of dynworld_set_debug_drawer calls followed by
\* dynworld_destroy, every DebugRenderer allocated is freed exactly once (none
\* is deleted twice, none is left once the world is destroyed), and while the
\* world lives its debugRenderer pointer is null or points to a forwarder
\* that has not been freed.
C23_RenderersFreedOnceNoDangling ==
    /\ "double_free" \notin ub
    /\ dw.state = "destroyed" =>
          \A r \in RendererIds : renderers[r].state \in {"unalloc", "freed"}
    /\ (dw.state = "live" /\ debugRenderer # NULL) =>
          renderers[debugRenderer].state = "live"

Parts(seq) == {seq[i] : i \in 1..Len(seq)}

\* C24: destroying an entity frees its box shape and, if it has one, its jump
\* sensor, and leaves the world's registered objects as they were: the
\* entity's body and its sensor volume are still registered afterwards.
C24_DestroyEntityKeepsRegistrations ==
    [][(last'.op = "~entity_collider" /\ last'.h # NULL) =>
          LET e == last'.h
          IN /\ ents'[e].state = "freed"
             /\ "body_shape" \in Parts(ents'[e].freed)
             /\ ents[e].sensor <=> "jump_sensor" \in Parts(ents'[e].freed)
             /\ registered' = registered
             /\ BodyObj(e) \in Objs(registered')
             /\ ents[e].sensor => SensorObj(e) \in Objs(registered')]_vars

\* an entity with a jump sensor has been destroyed and both its objects are
\* still in the world
C24_Witness ==
    /\ last.op = "~entity_collider" /\ last.h # NULL
    /\ ents[last.h].state = "freed" /\ ents[last.h].sensor
    /\ ents[last.h].freed = <<"body_shape", "jump_sensor">>
    /\ {BodyObj(last.h), SensorObj(last.h)} \subseteq Objs(registered)

\* C25: entity_collider_set called twice in a row on the same entity with the
\* same arguments, no step in between, leaves the entity as the first call
\* left it: same body transform, same sensor placement, same pending force.
C25_SetIsIdempotentOnReplay ==
    [][(/\ last.op = "entity_collider_set" /\ last.h # NULL
        /\ last'.op = "entity_collider_set" /\ last'.h = last.h
        /\ last'.action = last.action /\ last'.vel = last.vel
        /\ ents'[last.h].pos = ents[last.h].pos
        /\ ents'[last.h].rot = ents[last.h].rot)
       => ents'[last.h] = ents[last.h]]_vars

Reverse(seq) == [i \in 1..Len(seq) |-> seq[Len(seq) + 1 - i]]

IsPrefix(a, b) == Len(a) <= Len(b) /\ a = SubSeq(b, 1, Len(a))

\* the constructed subsystems among what the destructor has deleted so far
FreedSubsystems == SelectSeq(dw.freed, LAMBDA name : name \in SubsystemNames)

\* C26 as stated: the subsystems are freed in exactly the reverse of the order
\* they were constructed in (configuration, dispatcher, broadphase, solver,
\* dynamics world, ghost-pair callback).
C26_DestroyStrictReverse ==
    /\ IsPrefix(FreedSubsystems, Reverse(Subsystems))
    /\ dw.state = "destroyed" => FreedSubsystems = Reverse(Subsystems)

\* C26 amended: the first five subsystems constructed are freed in the reverse
\* of their construction order, and the ghost-pair callback, constructed
\* last, is freed after all five, so after the broadphase that points to it.
C26_DestroyReverseThenGhostCallback ==
    LET n        == Len(Subsystems)
        expected == Reverse(SubSeq(Subsystems, 1, n - 1)) \o <<Subsystems[n]>>
    IN /\ IsPrefix(FreedSubsystems, expected)
       /\ dw.state = "destroyed" => FreedSubsystems = expected

\* a world has been destroyed: the dynamics world went first, the ghost-pair
\* callback last of the six
C26_Witness ==
    /\ dw.state = "destroyed"
    /\ Len(FreedSubsystems) = Len(Subsystems)
    /\ FreedSubsystems[1] = "dynamicsWorld"
    /\ FreedSubsystems[Len(Subsystems)] = "ghostCallback"

\* the sensor's origin seen from the body: the offset in the body's frame
LocalOffset(g) ==
    RotateUp((4 - g.turn) % 4,
             <<g.sorigin[1] - g.origin[1], g.sorigin[2] - g.origin[2],
               g.sorigin[3] - g.origin[3]>>)

SensorBoxIsScaled(g) ==
    /\ 10 * At(g.sensor_dims, SIDE_DIM) = 8 * At(g.half_dims, SIDE_DIM)
    /\ 10 * At(g.sensor_dims, FWD_DIM) = 8 * At(g.half_dims, FWD_DIM)
    /\ 100 * At(g.sensor_dims, UP_DIM) = 25 * At(g.half_dims, UP_DIM)

\* C27 as stated: the sensor's box is (0.8w, 0.8d, 0.25h), and each place puts
\* the sensor at the entity's transform composed with a forward offset and a
\* downward offset of half the sensor's height (its half-extent, 0.25h).
C27_SensorPlacedHalfSensorHeightDown ==
    \A e \in LiveEnts :
        LET g == ents[e].geom
        IN /\ SensorBoxIsScaled(g)
           /\ g.sturn = g.turn
           /\ At(LocalOffset(g), SIDE_DIM) = 0
           /\ At(LocalOffset(g), FWD_DIM) > 0
           /\ At(LocalOffset(g), UP_DIM) = -(At(g.sensor_dims, UP_DIM) * Unit)

\* C27 amended: the downward offset is half the entity's half-height, 0.5h,
\* which is the sensor's full height; the forward offset is the entity's
\* forward half-extent times (2.0 less the sensor box's forward half-extent
\* without margin).
C27_SensorPlacedHalfEntityHeightDown ==
    \A e \in LiveEnts :
        LET g == ents[e].geom
        IN /\ SensorBoxIsScaled(g)
           /\ g.sturn = g.turn
           /\ At(LocalOffset(g), SIDE_DIM) = 0
           /\ At(LocalOffset(g), FWD_DIM) =
                 At(g.half_dims, FWD_DIM) * (2 * Unit - g.shape_fwd)
           /\ 2 * At(LocalOffset(g), UP_DIM) = -(At(g.half_dims, UP_DIM) * Unit)
           /\ At(LocalOffset(g), UP_DIM) = -(2 * At(g.sensor_dims, UP_DIM) * Unit)

\* an entity with unequal half-extents has been turned a quarter turn away
\* from where it was built, moved, and its sensor re-placed
C27_Witness ==
    /\ last.op = "update_jump_sensor_transform"
    /\ LET g == ents[last.h].geom
       IN /\ g.turn = 1 /\ g.origin # <<0, 0, 0>>
          /\ At(g.half_dims, FWD_DIM) # At(g.half_dims, UP_DIM)
          /\ g.sorigin[1] < g.origin[1]
          /\ g.sorigin[3] < g.origin[3]

====
